---- MODULE Spec2Model ----
(***************************************************************************)
(* plot_throughput.py: a one-shot batch script.  It resolves a CSV path,   *)
(* checks that it exists, loads it, groups the rows by 'scenario',         *)
(* aggregates 'QPS' into mean / std / count, sorts by descending mean,     *)
(* draws a bar chart, saves it next to the input and prints a summary.     *)
(*                                                                         *)
(* Each statement group of the script is one action; pc is the position    *)
(* of the interpreter.  Numbers are exact rationals [n, d]; d = 0 is NaN.  *)
(* The standard deviation is carried as its square (std_sq).               *)
(* Paths are sequences of one-character strings.                           *)
(***************************************************************************)
EXTENDS Integers, Sequences, FiniteSets, TLC

VARIABLES argv, exists, file, pc, csv_file, df, scenario_throughput, bars,
          output_file, written, stdout, stderr, exit_code

vars == <<argv, exists, file, pc, csv_file, df, scenario_throughput, bars,
          output_file, written, stdout, stderr, exit_code>>

\* ------------------------------------------------------------------ bounds
MaxRows == 3
MaxQPS == 2
MaxPieces == 3

\* ------------------------------------------------------- exact arithmetic
Abs(x) == IF x < 0 THEN -x ELSE x

RECURSIVE GCD(_, _)
GCD(a, b) == IF b = 0 THEN a ELSE GCD(b, a % b)

\* a float that is not a number: the result of 0/0 and of an empty field
NaN == [n |-> 0, d |-> 0]

IsNaN(x) == x.d = 0

\* the rational n/d in lowest terms with a positive denominator
Rat(n, d) ==
    IF d = 0 THEN NaN
    ELSE LET g == GCD(Abs(n), Abs(d))
             s == IF d < 0 THEN -1 ELSE 1
         IN [n |-> (s * n) \div g, d |-> (s * d) \div g]

Num(v) == [n |-> v, d |-> 1]

RAdd(x, y) == IF IsNaN(x) \/ IsNaN(y) THEN NaN
              ELSE Rat(x.n * y.d + y.n * x.d, x.d * y.d)

RSub(x, y) == IF IsNaN(x) \/ IsNaN(y) THEN NaN
              ELSE Rat(x.n * y.d - y.n * x.d, x.d * y.d)

RMul(x, y) == IF IsNaN(x) \/ IsNaN(y) THEN NaN
              ELSE Rat(x.n * y.n, x.d * y.d)

RDiv(x, y) == IF IsNaN(x) \/ IsNaN(y) THEN NaN
              ELSE Rat(x.n * y.d, x.d * y.n)

\* float comparison: every comparison with NaN is false
RGeq(x, y) == ~IsNaN(x) /\ ~IsNaN(y) /\ x.n * y.d >= y.n * x.d

RLt(x, y) == ~IsNaN(x) /\ ~IsNaN(y) /\ x.n * y.d < y.n * x.d

\* float equality: NaN equals nothing, itself included
REq(x, y) == ~IsNaN(x) /\ ~IsNaN(y) /\ x = y

\* ------------------------------------------------------------ input table
\* scenario labels in their sort order (Python string order)
ScenarioNames == <<"A", "B", "C">>

Digits == <<"0", "1", "2", "3", "4", "5", "6", "7", "8", "9">>

\* the text of one CSV field; "" is an empty field
ScenarioFields == {ScenarioNames[i] : i \in DOMAIN ScenarioNames} \cup {""}

QPSFields == {Digits[v + 1] : v \in 0..MaxQPS} \cup {""}

FileRows == [scenario : ScenarioFields, QPS : QPSFields]

Tables(n) == UNION {[1..k -> FileRows] : k \in 0..n}

\* field texts read_csv turns into a missing value (those the model can produce)
NaValues == {"", "NA", "NaN", "nan", "null"}

\* the missing value in a column of labels
NaNLabel == "nan"

ParseInt(s) == CHOOSE v \in 0..9 : Digits[v + 1] = s

\* pd.read_csv: one record per data row, empty fields become missing values
read_csv(rows) ==
    [i \in DOMAIN rows |->
        [scenario |-> IF rows[i].scenario \in NaValues THEN NaNLabel
                      ELSE rows[i].scenario,
         QPS |-> IF rows[i].QPS \in NaValues THEN NaN
                 ELSE Num(ParseInt(rows[i].QPS))]]

\* -------------------------------------------------------------- aggregator
Range(s) == {s[i] : i \in DOMAIN s}

\* grouping of adjacent rows only: a label that comes back after another one
\* opens a second group
RECURSIVE GroupKeysRuns(_)
GroupKeysRuns(frame) ==
    IF frame = <<>> THEN <<>>
    ELSE LET rest == GroupKeysRuns(Tail(frame))
             k == Head(frame).scenario
         IN IF k = NaNLabel \/ (Len(frame) > 1 /\ frame[2].scenario = k)
            THEN rest
            ELSE <<k>> \o rest

\* groupby(sort=False): the distinct labels in order of first appearance
RECURSIVE GroupKeysUnsorted(_)
GroupKeysUnsorted(frame) ==
    IF frame = <<>> THEN <<>>
    ELSE LET init == SubSeq(frame, 1, Len(frame) - 1)
             k == frame[Len(frame)].scenario
             seen == GroupKeysUnsorted(init)
         IN IF k = NaNLabel \/ k \in Range(seen) THEN seen ELSE Append(seen, k)

\* groupby(sort=True, dropna=True): the distinct labels, missing ones dropped,
\* in sorted order
GroupKeys(frame) ==
    LET present == {frame[i].scenario : i \in DOMAIN frame} \ {NaNLabel}
        InGroup(k) == k \in present
    IN SelectSeq(ScenarioNames, InGroup)

\* the QPS column of one group, in row order
RECURSIVE GroupValues(_, _)
GroupValues(frame, key) ==
    IF frame = <<>> THEN <<>>
    ELSE IF Head(frame).scenario = key
         THEN <<Head(frame).QPS>> \o GroupValues(Tail(frame), key)
         ELSE GroupValues(Tail(frame), key)

\* 'size': the number of values, missing ones included
CountSize(vals) == Len(vals)

\* 'count': the number of values that are not missing
RECURSIVE Count(_)
Count(vals) ==
    IF vals = <<>> THEN 0
    ELSE (IF IsNaN(Head(vals)) THEN 0 ELSE 1) + Count(Tail(vals))

RECURSIVE SumSkipNa(_)
SumSkipNa(vals) ==
    IF vals = <<>> THEN Num(0)
    ELSE IF IsNaN(Head(vals)) THEN SumSkipNa(Tail(vals))
         ELSE RAdd(Head(vals), SumSkipNa(Tail(vals)))

\* 'mean': sum of the present values over their number; 0/0 with none
Mean(vals) ==
    IF Count(vals) = 0 THEN NaN ELSE RDiv(SumSkipNa(vals), Num(Count(vals)))

\* the running state of the one-pass variance: nobs, mean, sum of squares
RECURSIVE Welford(_, _)
Welford(vals, acc) ==
    IF vals = <<>> THEN acc
    ELSE IF IsNaN(Head(vals)) THEN Welford(Tail(vals), acc)
         ELSE LET val == Head(vals)
                  nobs == acc.nobs + 1
                  oldmean == acc.mean
                  mean == RAdd(oldmean, RDiv(RSub(val, oldmean), Num(nobs)))
                  ssqdm == RAdd(acc.ssqdm, RMul(RSub(val, mean), RSub(val, oldmean)))
              IN Welford(Tail(vals), [nobs |-> nobs, mean |-> mean, ssqdm |-> ssqdm])

\* delta degrees of freedom of 'std'
ddof == 1

\* the population variance: ssqdm / count
StdSqPopulation(vals) ==
    LET acc == Welford(vals, [nobs |-> 0, mean |-> Num(0), ssqdm |-> Num(0)])
    IN IF acc.nobs = 0 THEN NaN ELSE RDiv(acc.ssqdm, Num(acc.nobs))

\* 'std' squared: ssqdm / (count - ddof), missing when count <= ddof
StdSq(vals) ==
    LET acc == Welford(vals, [nobs |-> 0, mean |-> Num(0), ssqdm |-> Num(0)])
    IN IF acc.nobs <= ddof THEN NaN ELSE RDiv(acc.ssqdm, Num(acc.nobs - ddof))

\* df.groupby('scenario')['QPS'].agg(['mean', 'std', 'count']).reset_index()
Aggregate(frame) ==
    LET keys == GroupKeys(frame)
    IN [i \in DOMAIN keys |->
           LET vals == GroupValues(frame, keys[i])
           IN [scenario |-> keys[i], mean |-> Mean(vals),
               std_sq |-> StdSq(vals), count |-> Count(vals)]]

Injective(p) == \A i, j \in DOMAIN p : p[i] = p[j] => i = j

Reverse(s) == [i \in DOMAIN s |-> s[Len(s) + 1 - i]]

\* numpy argsort, kind='quicksort': the orders that put the values in
\* ascending order; the sort is not stable, equal values come in any order
Argsort(vals) ==
    {q \in [DOMAIN vals -> DOMAIN vals] :
        /\ Injective(q)
        /\ \A i, j \in DOMAIN vals : i < j => ~RLt(vals[q[j]], vals[q[i]])}

\* pandas nargsort(na_position='last'): the positions with a value are
\* argsorted (reversed before and after for a descending sort), the positions
\* without one follow in their original order
nargsort(items, ascending) ==
    LET idx == [i \in DOMAIN items |-> i]
        HasValue(i) == ~IsNaN(items[i])
        NoValue(i) == IsNaN(items[i])
        fwd == SelectSeq(idx, HasValue)
        nan_idx == SelectSeq(idx, NoValue)
        non_nan_idx == IF ascending THEN fwd ELSE Reverse(fwd)
        non_nans == [i \in DOMAIN non_nan_idx |-> items[non_nan_idx[i]]]
    IN {LET sorted == [i \in DOMAIN non_nan_idx |-> non_nan_idx[q[i]]]
        IN (IF ascending THEN sorted ELSE Reverse(sorted)) \o nan_idx
        : q \in Argsort(non_nans)}

\* DataFrame.sort_values('mean', ascending=...): the tables it can return
sort_values(table, ascending) ==
    {[i \in DOMAIN table |-> table[indexer[i]]] :
        indexer \in nargsort([i \in DOMAIN table |-> table[i].mean], ascending)}

SortAscending(table) == sort_values(table, TRUE)

\* scenario_throughput.sort_values('mean', ascending=False)
SortDescending(table) == sort_values(table, FALSE)

\* ------------------------------------------------------------------ paths
\* 'results/results.csv'
DefaultCsv == <<"r", "e", "s", "u", "l", "t", "s", "/",
                "r", "e", "s", "u", "l", "t", "s", ".", "c", "s", "v">>

\* '.csv'
CsvSuffix == <<".", "c", "s", "v">>

\* '_throughput.png'
PngSuffix == <<"_", "t", "h", "r", "o", "u", "g", "h", "p", "u", "t",
               ".", "p", "n", "g">>

StartsWith(s, prefix) ==
    Len(s) >= Len(prefix) /\ SubSeq(s, 1, Len(prefix)) = prefix

EndsWith(s, suffix) ==
    Len(s) >= Len(suffix) /\ SubSeq(s, Len(s) - Len(suffix) + 1, Len(s)) = suffix

\* str.replace(old, new): every non-overlapping occurrence, left to right
RECURSIVE Replace(_, _, _)
Replace(s, old, new) ==
    IF Len(s) < Len(old) THEN s
    ELSE IF StartsWith(s, old)
         THEN new \o Replace(SubSeq(s, Len(old) + 1, Len(s)), old, new)
         ELSE <<Head(s)>> \o Replace(Tail(s), old, new)

\* str.rfind of one character: the last index holding it, 0 when there is none
RFind(s, c) ==
    LET at == {i \in DOMAIN s : s[i] = c}
    IN IF at = {} THEN 0 ELSE CHOOSE i \in at : \A j \in at : j <= i

\* os.path.splitext(p)[1]: from the last dot of the last component on, unless
\* only dots precede it in that component
SplitExt(p) ==
    LET sep == RFind(p, "/")
        dot == RFind(p, ".")
    IN IF dot > sep /\ \E k \in (sep + 1)..(dot - 1) : p[k] # "."
       THEN SubSeq(p, dot, Len(p))
       ELSE <<>>

RECURSIVE RStripDots(_)
RStripDots(p) ==
    IF p # <<>> /\ p[Len(p)] = "." THEN RStripDots(SubSeq(p, 1, Len(p) - 1)) ELSE p

\* str.lower on the letters the model uses
LowerChar(c) ==
    CASE c = "P" -> "p"
      [] c = "N" -> "n"
      [] c = "G" -> "g"
      [] OTHER -> c

Lower(s) == [i \in DOMAIN s |-> LowerChar(s[i])]

\* the file types the figure canvas can write
SupportedFormats ==
    {<<"p", "n", "g">>, <<"p", "d", "f">>, <<"s", "v", "g">>, <<"p", "s">>,
     <<"e", "p", "s">>, <<"j", "p", "g">>, <<"j", "p", "e", "g">>,
     <<"t", "i", "f">>, <<"t", "i", "f", "f">>, <<"r", "a", "w">>,
     <<"r", "g", "b", "a">>, <<"p", "g", "f">>, <<"s", "v", "g", "z">>,
     <<"w", "e", "b", "p">>}

\* savefig: the format is the extension of the file name, png when it has none
SavefigFormat(fname) ==
    LET ext == SplitExt(fname)
        fmt == IF ext = <<>> THEN <<>> ELSE Tail(ext)
    IN IF fmt = <<>> THEN <<"p", "n", "g">> ELSE Lower(fmt)

\* savefig: the file written; a name without extension gets '.png' appended
SavefigName(fname) ==
    LET ext == SplitExt(fname)
        fmt == IF ext = <<>> THEN <<>> ELSE Tail(ext)
    IN IF fmt = <<>> THEN RStripDots(fname) \o <<".", "p", "n", "g">> ELSE fname

\* csv_file.replace('.csv', '_throughput.png')
OutputFile(path) == Replace(path, CsvSuffix, PngSuffix)

\* ---------------------------------------------------------- initial state
\* sys.argv[0]
Program == <<"p">>

\* fragments the path arguments are built from
Pieces == {<<"a">>, <<"/">>, <<".", "c", "s", "v">>, <<".", "c">>, <<"s", "v">>,
           <<".", "p", "n", "g">>, <<".", "P", "N", "G">>}

RECURSIVE Flatten(_)
Flatten(ps) == IF ps = <<>> THEN <<>> ELSE Head(ps) \o Flatten(Tail(ps))

Paths(k) == {Flatten(ps) : ps \in UNION {[1..j -> Pieces] : j \in 1..k}}

NoFile == [kind |-> "absent", rows |-> <<>>]

Malformed == [kind |-> "malformed", rows |-> <<>>]

TableFile(rows) == [kind |-> "table", rows |-> rows]

\* the file contents tried with every path: header only, one row, not a CSV
PathFiles == {TableFile(<<>>), TableFile(<<[scenario |-> "A", QPS |-> "1"]>>),
              Malformed}

NoRow == [scenario |-> "", mean |-> NaN, std_sq |-> NaN, count |-> 0]

Line(kind, path, row) == [kind |-> kind, path |-> path, row |-> row]

\* every table of up to MaxRows rows at the default path
InitData ==
    /\ argv = <<Program>>
    /\ exists = TRUE
    /\ file \in {TableFile(t) : t \in Tables(MaxRows)}

\* every path argument, present or not, with the few file contents
InitPath ==
    /\ argv \in {<<Program>>} \cup {<<Program, path>> : path \in Paths(MaxPieces)}
    /\ exists \in BOOLEAN
    /\ file \in (IF exists THEN PathFiles ELSE {NoFile})

Init ==
    /\ InitData \/ InitPath
    /\ pc = "start"
    /\ csv_file = <<>>
    /\ df = <<>>
    /\ scenario_throughput = <<>>
    /\ bars = <<>>
    /\ output_file = <<>>
    /\ written = {}
    /\ stdout = <<>>
    /\ stderr = <<>>
    /\ exit_code = <<>>

\* ----------------------------------------------------------------- actions
\* lines 9-11: the default path, or the first argument
ResolvePath ==
    /\ pc = "start"
    /\ csv_file' = IF Len(argv) > 1 THEN argv[2] ELSE DefaultCsv
    /\ pc' = "check"
    /\ UNCHANGED <<argv, exists, file, df, scenario_throughput, bars,
                   output_file, written, stdout, stderr, exit_code>>

\* the missing path reported without leaving the script
PathMissingContinue ==
    /\ pc = "check"
    /\ ~exists
    /\ stdout' = Append(stdout, Line("error", csv_file, NoRow))
    /\ pc' = "load"
    /\ UNCHANGED <<argv, exists, file, csv_file, df, scenario_throughput, bars,
                   output_file, written, stderr, exit_code>>

\* lines 13-15, path missing: print(...) writes to sys.stdout, then sys.exit(1)
PathMissing ==
    /\ pc = "check"
    /\ ~exists
    /\ stdout' = Append(stdout, Line("error", csv_file, NoRow))
    /\ exit_code' = <<1>>
    /\ pc' = "exited"
    /\ UNCHANGED <<argv, exists, file, csv_file, df, scenario_throughput, bars,
                   output_file, written, stderr>>

\* line 13, path present: fall through
PathExists ==
    /\ pc = "check"
    /\ exists
    /\ pc' = "load"
    /\ UNCHANGED <<argv, exists, file, csv_file, df, scenario_throughput, bars,
                   output_file, written, stdout, stderr, exit_code>>

\* line 18
Load ==
    /\ pc = "load"
    /\ file.kind = "table"
    /\ df' = read_csv(file.rows)
    /\ pc' = "aggregate"
    /\ UNCHANGED <<argv, exists, file, csv_file, scenario_throughput, bars,
                   output_file, written, stdout, stderr, exit_code>>

\* line 18 raising: the traceback goes to stderr, the interpreter exits with 1
LoadError ==
    /\ pc = "load"
    /\ file.kind = "malformed"
    /\ stderr' = Append(stderr, Line("traceback", csv_file, NoRow))
    /\ exit_code' = <<1>>
    /\ pc' = "crashed"
    /\ UNCHANGED <<argv, exists, file, csv_file, df, scenario_throughput, bars,
                   output_file, written, stdout>>

\* an aggregation that rejects a frame without rows
GroupAggNonEmpty ==
    /\ pc = "aggregate"
    /\ IF df = <<>>
       THEN /\ stderr' = Append(stderr, Line("traceback", csv_file, NoRow))
            /\ exit_code' = <<1>>
            /\ pc' = "crashed"
            /\ UNCHANGED scenario_throughput
       ELSE /\ scenario_throughput' = Aggregate(df)
            /\ pc' = "sort"
            /\ UNCHANGED <<stderr, exit_code>>
    /\ UNCHANGED <<argv, exists, file, csv_file, df, bars,
                   output_file, written, stdout>>

\* line 21
GroupAgg ==
    /\ pc = "aggregate"
    /\ scenario_throughput' = Aggregate(df)
    /\ pc' = "sort"
    /\ UNCHANGED <<argv, exists, file, csv_file, df, bars,
                   output_file, written, stdout, stderr, exit_code>>

\* line 24
SortByMean ==
    /\ pc = "sort"
    /\ scenario_throughput' \in SortDescending(scenario_throughput)
    /\ pc' = "render"
    /\ UNCHANGED <<argv, exists, file, csv_file, df, bars,
                   output_file, written, stdout, stderr, exit_code>>

\* lines 30-43: one bar per row with its error bar and its label
BarChart(table) ==
    [i \in DOMAIN table |->
        [x |-> table[i].scenario, height |-> table[i].mean,
         yerr |-> table[i].std_sq, n |-> table[i].count]]

\* lines 27-61
Render ==
    /\ pc = "render"
    /\ bars' = BarChart(scenario_throughput)
    /\ pc' = "save"
    /\ UNCHANGED <<argv, exists, file, csv_file, df, scenario_throughput,
                   output_file, written, stdout, stderr, exit_code>>

\* lines 64-66
SaveFigure ==
    /\ pc = "save"
    /\ output_file' = OutputFile(csv_file)
    /\ SavefigFormat(output_file') \in SupportedFormats
    /\ written' = written \cup {SavefigName(output_file')}
    /\ stdout' = Append(stdout, Line("saved", output_file', NoRow))
    /\ pc' = "report"
    /\ UNCHANGED <<argv, exists, file, csv_file, df, scenario_throughput, bars,
                   stderr, exit_code>>

\* lines 64-65, savefig raising on a file type it cannot write
SaveFigureError ==
    /\ pc = "save"
    /\ output_file' = OutputFile(csv_file)
    /\ SavefigFormat(output_file') \notin SupportedFormats
    /\ stderr' = Append(stderr, Line("traceback", output_file', NoRow))
    /\ exit_code' = <<1>>
    /\ pc' = "crashed"
    /\ UNCHANGED <<argv, exists, file, csv_file, df, scenario_throughput, bars,
                   written, stdout>>

\* lines 69-74: banner, title, banner, one line per row, banner
Summary(table) ==
    <<Line("banner", <<>>, NoRow), Line("title", <<>>, NoRow),
      Line("banner", <<>>, NoRow)>>
    \o [i \in DOMAIN table |-> Line("row", <<>>, table[i])]
    \o <<Line("banner", <<>>, NoRow)>>

Report ==
    /\ pc = "report"
    /\ stdout' = stdout \o Summary(scenario_throughput)
    /\ pc' = "show"
    /\ UNCHANGED <<argv, exists, file, csv_file, df, scenario_throughput, bars,
                   output_file, written, stderr, exit_code>>

\* line 77, then the end of the script
Show ==
    /\ pc = "show"
    /\ exit_code' = <<0>>
    /\ pc' = "done"
    /\ UNCHANGED <<argv, exists, file, csv_file, df, scenario_throughput, bars,
                   output_file, written, stdout, stderr>>

Next ==
    \/ ResolvePath
    \/ PathMissing
    \/ PathExists
    \/ Load
    \/ LoadError
    \/ GroupAgg
    \/ SortByMean
    \/ Render
    \/ SaveFigure
    \/ SaveFigureError
    \/ Report
    \/ Show

Spec == Init /\ [][Next]_vars

\* ------------------------------------------------------- claim vocabulary
\* the run got past line 21: scenario_throughput holds the aggregate table
Aggregated ==
    \/ pc \in {"sort", "render", "save", "report", "show", "done"}
    \/ pc = "crashed" /\ file.kind = "table"

\* the run got past line 24: the table is in the order its consumers see
Sorted ==
    \/ pc \in {"render", "save", "report", "show", "done"}
    \/ pc = "crashed" /\ file.kind = "table"

\* the run got past line 64: output_file is set
Saved ==
    \/ pc \in {"report", "show", "done"}
    \/ pc = "crashed" /\ file.kind = "table"

Terminated == pc \in {"done", "exited", "crashed"}

AggScenarios == {scenario_throughput[i].scenario : i \in DOMAIN scenario_throughput}

\* the scenario fields of the input rows, the empty field included
InputScenarios == {file.rows[i].scenario : i \in DOMAIN file.rows}

\* the input rows whose scenario field is s
RowsOf(s) == {i \in DOMAIN file.rows : file.rows[i].scenario = s}

\* the input rows whose scenario field is s and whose QPS field is not empty
SamplesOf(s) == {i \in RowsOf(s) : file.rows[i].QPS # ""}

RECURSIVE SumCounts(_)
SumCounts(table) ==
    IF table = <<>> THEN 0 ELSE Head(table).count + SumCounts(Tail(table))

\* the QPS number of input row i, read off the digit table
Sample(i) == Num(CHOOSE v \in 0..9 : Digits[v + 1] = file.rows[i].QPS)

\* textbook sums over a set of input rows
RECURSIVE SumOver(_)
SumOver(I) ==
    IF I = {} THEN Num(0)
    ELSE LET i == CHOOSE k \in I : TRUE
         IN RAdd(Sample(i), SumOver(I \ {i}))

RECURSIVE SumSqDevOver(_, _)
SumSqDevOver(I, m) ==
    IF I = {} THEN Num(0)
    ELSE LET i == CHOOSE k \in I : TRUE
             dev == RSub(Sample(i), m)
         IN RAdd(RMul(dev, dev), SumSqDevOver(I \ {i}, m))

\* the first input row holding scenario s
FirstRow(s) == CHOOSE i \in RowsOf(s) : \A j \in RowsOf(s) : i <= j

\* the position of a label in the sort order of labels
Rank(s) == CHOOSE i \in DOMAIN ScenarioNames : ScenarioNames[i] = s

\* ------------------------------------------------------------------ claims
NoDuplicates(table) ==
    \A i, j \in DOMAIN table : table[i].scenario = table[j].scenario => i = j

C2_CountsAllRows ==
    Aggregated =>
        /\ \A i \in DOMAIN scenario_throughput :
              scenario_throughput[i].count =
                  Cardinality(RowsOf(scenario_throughput[i].scenario))
        /\ SumCounts(scenario_throughput) = Len(file.rows)

\* C2: count is the number of input rows with the group's scenario whose QPS
\* field is not empty, and the counts add up to the number of input rows in
\* which neither field is empty.
C2_CountsSamples ==
    Aggregated =>
        /\ \A i \in DOMAIN scenario_throughput :
              scenario_throughput[i].count =
                  Cardinality(SamplesOf(scenario_throughput[i].scenario))
        /\ SumCounts(scenario_throughput) =
              Cardinality({i \in DOMAIN file.rows :
                              file.rows[i].scenario # "" /\ file.rows[i].QPS # ""})

\* an aggregated group with two samples and one row without QPS
C2_Witness ==
    /\ Aggregated
    /\ \E i \in DOMAIN scenario_throughput :
          /\ scenario_throughput[i].count = 2
          /\ Cardinality(RowsOf(scenario_throughput[i].scenario)) = 3

\* C3: when the resolved path does not exist the run never reaches the load,
\* aggregation, rendering or save step, writes no image, and ends with exit
\* code 1.
C3_MissingFileExits ==
    ~exists =>
        /\ pc \in {"start", "check", "exited"}
        /\ written = {}
        /\ df = <<>> /\ scenario_throughput = <<>> /\ bars = <<>>
        /\ pc = "exited" => exit_code = <<1>>
        /\ pc # "exited" => exit_code = <<>>

\* a run on a missing path argument that has ended
C3_Witness ==
    /\ ~exists
    /\ Len(argv) > 1
    /\ csv_file = argv[2]
    /\ pc = "exited"
    /\ exit_code = <<1>>

\* C4 as stated: when the resolved path does not exist, the message naming it
\* is on standard error and not on standard output when the run has exited.
C4_ErrorOnStderr ==
    (~exists /\ pc = "exited") =>
        /\ \E i \in DOMAIN stderr :
              stderr[i].kind = "error" /\ stderr[i].path = csv_file
        /\ \A i \in DOMAIN stdout : stdout[i].kind # "error"

\* the path with its last four characters cut off
Stem(path) == SubSeq(path, 1, Len(path) - Len(CsvSuffix))

\* C5 as stated: for an input path ending in '.csv' the output path is the
\* input path with that final suffix replaced by '_throughput.png' and the
\* rest unchanged.
C5_OnlySuffixReplaced ==
    (Saved /\ EndsWith(csv_file, CsvSuffix)) =>
        output_file = Stem(csv_file) \o PngSuffix

\* the means of the rows in table order
Means(table) == [i \in DOMAIN table |-> table[i].mean]

NonIncreasing(ms) ==
    \A i \in DOMAIN ms : i < Len(ms) => RGeq(ms[i], ms[i + 1])

\* C6 as stated: in the table the renderer and the reporter consume, each
\* row's mean is greater than or equal to the next row's mean.
C6_NonIncreasing ==
    Sorted => NonIncreasing(Means(scenario_throughput))

\* rows with a mean first, in non-increasing order; rows without one after them
DefinedThenNaN(ms) ==
    \A i, j \in DOMAIN ms : i < j =>
        \/ RGeq(ms[i], ms[j])
        \/ IsNaN(ms[j])

\* C6: in the table the renderer and the reporter consume, and in the bars
\* and the summary lines made from it, the rows that have a mean are in
\* non-increasing order of mean and the rows without a mean (groups with no
\* QPS value) come after all of them.
C6_DefinedNonIncreasing ==
    /\ Sorted => DefinedThenNaN(Means(scenario_throughput))
    /\ DefinedThenNaN([i \in DOMAIN bars |-> bars[i].height])
    /\ LET lines == SelectSeq(stdout, LAMBDA l : l.kind = "row")
       IN DefinedThenNaN([i \in DOMAIN lines |-> lines[i].row.mean])

\* a reported table the sort reordered: two different means and a group
\* without a mean, not in group order
C6_Witness ==
    /\ pc = "done"
    /\ Len(scenario_throughput) = 3
    /\ RLt(scenario_throughput[2].mean, scenario_throughput[1].mean)
    /\ IsNaN(scenario_throughput[3].mean)
    /\ scenario_throughput # Aggregate(df)
    /\ Len(bars) = 3

\* C7: for every group with count >= 2, mean is the sum of the group's QPS
\* values over count and std squared times (count - 1) is the sum of the
\* squared deviations from the mean; for a group with count = 1 std is
\* undefined, not 0.
C7_SampleFormulas ==
    Aggregated =>
        \A i \in DOMAIN scenario_throughput :
            LET row == scenario_throughput[i]
                I == SamplesOf(row.scenario)
            IN /\ row.count >= 2 =>
                    /\ row.mean = RDiv(SumOver(I), Num(row.count))
                    /\ RMul(row.std_sq, Num(row.count - 1)) =
                           SumSqDevOver(I, row.mean)
               /\ row.count = 1 =>
                    /\ IsNaN(row.std_sq)
                    /\ row.std_sq # Num(0)
                    /\ row.mean = SumOver(I)

\* an aggregate table with a group of three unequal samples whose mean is not
\* an integer
C7_Witness ==
    /\ Aggregated
    /\ \E i \in DOMAIN scenario_throughput :
          /\ scenario_throughput[i].count = 3
          /\ scenario_throughput[i].mean.d = 3
          /\ RLt(Num(0), scenario_throughput[i].std_sq)

\* the lines a run on a header-only file prints
EmptySummary ==
    <<Line("saved", output_file, NoRow), Line("banner", <<>>, NoRow),
      Line("title", <<>>, NoRow), Line("banner", <<>>, NoRow),
      Line("banner", <<>>, NoRow)>>

C9_TiesInInputOrder ==
    Sorted =>
        \A i, j \in DOMAIN scenario_throughput :
            (i < j /\ REq(scenario_throughput[i].mean, scenario_throughput[j].mean))
                => FirstRow(scenario_throughput[i].scenario)
                       < FirstRow(scenario_throughput[j].scenario)

\* C9: the order of the input rows does not decide the order of scenarios
\* with equal mean.  Scenarios with equal mean are adjacent in the sorted
\* table, in an order the sort leaves open, and scenarios without a mean come
\* last in ascending order of scenario name, wherever their rows stand in the
\* input.
C9_TiesAdjacent ==
    Sorted =>
        /\ \A i, j, k \in DOMAIN scenario_throughput :
              (i < j /\ j < k /\
               REq(scenario_throughput[i].mean, scenario_throughput[k].mean))
                  => REq(scenario_throughput[j].mean, scenario_throughput[i].mean)
        /\ \A i, j \in DOMAIN scenario_throughput :
              (i < j /\ IsNaN(scenario_throughput[i].mean))
                  => /\ IsNaN(scenario_throughput[j].mean)
                     /\ Rank(scenario_throughput[i].scenario)
                            < Rank(scenario_throughput[j].scenario)

\* a sorted table of three scenarios, two with equal mean standing against
\* the order of their first input rows, the third with a different mean
C9_Witness ==
    /\ Sorted
    /\ Len(scenario_throughput) = 3
    /\ \E i, j \in DOMAIN scenario_throughput :
          /\ i < j
          /\ REq(scenario_throughput[i].mean, scenario_throughput[j].mean)
          /\ FirstRow(scenario_throughput[i].scenario)
                 > FirstRow(scenario_throughput[j].scenario)
    /\ \E i, j \in DOMAIN scenario_throughput :
          RLt(scenario_throughput[i].mean, scenario_throughput[j].mean)

\* C10 as stated: the file the image is written to is never the input file.
C10_InputNotOverwritten ==
    csv_file \notin written

====
